---------------------------- MODULE Spec2Model ----------------------------
(***************************************************************************)
(* The wishlist application of src/app.py: a JSON file holding an array of *)
(* items, read in full by every request (load_data) and rewritten in full  *)
(* by every mutating request (save_data).  Requests are served by threads, *)
(* so the steps of two requests on the file may interleave.                *)
(***************************************************************************)
EXTENDS Integers, Sequences, FiniteSets, TLC

(***************************************************************************)
(* Bounds of the model.                                                    *)
(***************************************************************************)
MaxRequests == 3
MaxAdds == 3

\* The indices requests carry: every index of a list the model can hold
\* and one past the longest.
MaxIndex == MaxAdds

Procs == {1, 2}

(***************************************************************************)
(* Python values.  A str is a sequence of characters (name, link and notes *)
(* are written as TLA+ strings, image_url as a tuple of characters so that *)
(* strip() can be computed); None and a str stored in `image` are tagged.  *)
(***************************************************************************)
None == [none |-> TRUE]
PyStr(s) == [str |-> s]

\* Characters str.strip() removes (those the inputs below use).
Whitespace == {" ", "\t", "\n", "\r", "\f"}

RECURSIVE lstrip(_)
lstrip(s) ==
  IF s # <<>> /\ Head(s) \in Whitespace THEN lstrip(Tail(s)) ELSE s

RECURSIVE rstrip(_)
rstrip(s) ==
  IF s # <<>> /\ s[Len(s)] \in Whitespace
    THEN rstrip(SubSeq(s, 1, Len(s) - 1))
    ELSE s

strip(s) == rstrip(lstrip(s))

form_get(form, key, default) ==
  IF key \in DOMAIN form THEN form[key] ELSE default

isoformat(t) == IF t.usec = 0 THEN <<t.sec>> ELSE <<t.sec, t.usec>>

(***************************************************************************)
(* The inputs: submitted forms, clock readings, routes.                    *)
(***************************************************************************)
FormBook == [name |-> "Book", link |-> "http://x", notes |-> "",
             image_url |-> <<>>]
FormBlank == [name |-> "Book", link |-> "http://x", notes |-> "",
              image_url |-> <<" ", "\t">>]
FormNoImage == [name |-> "Book", link |-> "http://x", notes |-> ""]
FormToy == [name |-> "Toy", link |-> "", notes |-> "red",
            image_url |-> <<" ", "a", " ", "b", "\n">>]
FormNoName == [link |-> "http://x", notes |-> "", image_url |-> <<>>]

Forms == {FormBook, FormBlank, FormNoImage, FormToy, FormNoName}

Times == {[sec |-> 0, usec |-> 0], [sec |-> 0, usec |-> 7]}

IndexRoutes == {"/delete", "/reserve", "/unreserve"}

NoForm == [none |-> TRUE]

Requests ==
       {[route |-> "GET /", index |-> 0, form |-> NoForm]}
  \cup {[route |-> "/public", index |-> 0, form |-> NoForm]}
  \cup {[route |-> "POST /", index |-> 0, form |-> f] : f \in Forms}
  \cup {[route |-> r, index |-> i, form |-> NoForm] :
          r \in IndexRoutes, i \in 0..MaxIndex}

NoRequest == [route |-> "none", index |-> 0, form |-> NoForm]

(***************************************************************************)
(* JSON.  The text of the file is kept as what it parses to, together with *)
(* its length in characters; a text that is not one JSON document (an      *)
(* empty file, a document followed by the tail of a longer one) has        *)
(* wf = FALSE.                                                             *)
(***************************************************************************)
JNull == [j |-> "null"]
JTrue == [j |-> "true"]
JFalse == [j |-> "false"]
JString(s) == [j |-> "string", v |-> s]

JLen(v) ==
  CASE v.j = "null" -> 4
    [] v.j = "true" -> 4
    [] v.j = "false" -> 5
    [] v.j = "string" -> Len(v.v) + 2

IsoLen(c) == IF Len(c) = 1 THEN 19 ELSE 26

JCreatedLen(v) == IsoLen(v.v) + 2

\* {"name": .., "link": .., "notes": .., "image": .., "purchased": ..,
\*  "created_at": ..}: the braces, six keys with ": " and five ", ".
JObjectLen(o) ==
  73 + JLen(o.name) + JLen(o.link) + JLen(o.notes) + JLen(o.image)
     + JLen(o.purchased) + JCreatedLen(o.created_at)

RECURSIVE JSumLen(_)
JSumLen(os) ==
  IF os = <<>> THEN 0 ELSE JObjectLen(Head(os)) + JSumLen(Tail(os))

JArrayLen(os) ==
  IF os = <<>> THEN 2 ELSE 2 + JSumLen(os) + 2 * (Len(os) - 1)

JObject(item) ==
  [name |-> JString(item.name),
   link |-> JString(item.link),
   notes |-> JString(item.notes),
   image |-> IF item.image = None THEN JNull ELSE JString(item.image.str),
   purchased |-> IF item.purchased THEN JTrue ELSE JFalse,
   created_at |-> JString(item.created_at)]

PyDict(o) ==
  [name |-> o.name.v,
   link |-> o.link.v,
   notes |-> o.notes.v,
   image |-> IF o.image = JNull THEN None ELSE PyStr(o.image.v),
   purchased |-> (o.purchased = JTrue),
   created_at |-> o.created_at.v]

json_dump(data) ==
  LET os == [k \in 1..Len(data) |-> JObject(data[k])]
  IN  [items |-> os, len |-> JArrayLen(os)]

json_load(f) == [k \in 1..Len(f.items) |-> PyDict(f.items[k])]

(***************************************************************************)
(* The file wishlist_data.json.                                            *)
(***************************************************************************)
Absent == [exists |-> FALSE, wf |-> FALSE, items |-> <<>>, len |-> 0]
Empty == [exists |-> TRUE, wf |-> FALSE, items |-> <<>>, len |-> 0]
Garbage == [exists |-> TRUE, wf |-> FALSE, items |-> <<>>, len |-> 1]
FileOf(data) ==
  [exists |-> TRUE, wf |-> TRUE, items |-> json_dump(data).items,
   len |-> json_dump(data).len]

Malformed(f) == f.exists /\ ~f.wf

\* open(FILE_PATH, "w"): creates or truncates.
open_w(f) == Empty

\* The buffered text is written at offset 0 when the file is closed: over
\* an empty file it is the whole content, over a longer text written in
\* between by another open file it leaves that text's tail behind.
write_close(f, text) ==
  IF text.len >= f.len
    THEN [exists |-> TRUE, wf |-> TRUE, items |-> text.items, len |-> text.len]
    ELSE [exists |-> TRUE, wf |-> FALSE, items |-> <<>>, len |-> f.len]

(***************************************************************************)
(* The handlers' computations on the loaded list.                          *)
(***************************************************************************)
RequiredFields == {"name", "link", "notes"}

select_image(image_url) == IF image_url = <<>> THEN None ELSE PyStr(image_url)

new_item(form, t) ==
  [name |-> form.name,
   link |-> form.link,
   notes |-> form.notes,
   image |-> select_image(strip(form_get(form, "image_url", <<>>))),
   purchased |-> FALSE,
   created_at |-> isoformat(t)]

\* append with a slip: the item is put first.
append_front(data, item) == <<item>> \o data

append(data, item) == Append(data, item)

\* index is the 0-based index of the URL.
in_range(index, data) == 0 <= index /\ index < Len(data)

\* pop with a slip: the element after index is removed.
pop_next(data, index) ==
  [k \in 1..(Len(data) - 1) |-> IF k <= index + 1 THEN data[k] ELSE data[k + 1]]

\* pop with a slip: the remaining elements come out in reverse order.
pop_reversing(data, index) ==
  [k \in 1..(Len(data) - 1) |->
     IF Len(data) - k <= index THEN data[Len(data) - k]
     ELSE data[Len(data) - k + 1]]

\* pop with a slip: pop() without its index removes the last element.
pop_last(data, index) == SubSeq(data, 1, Len(data) - 1)

pop(data, index) ==
  [k \in 1..(Len(data) - 1) |-> IF k <= index THEN data[k] ELSE data[k + 1]]

\* data[index]['purchased'] with a slip: the flag is flipped.
set_purchased_toggle(data, index, value) ==
  [data EXCEPT ![index + 1] = [@ EXCEPT !.purchased = ~@]]

\* data[index]['purchased'] with a slip: every item is flagged.
set_purchased_all(data, index, value) ==
  [k \in 1..Len(data) |-> [data[k] EXCEPT !.purchased = value]]

set_purchased(data, index, value) ==
  [data EXCEPT ![index + 1] = [@ EXCEPT !.purchased = value]]

\* The items passed to render_template (the stored items carry every key,
\* so no default of item.get applies but that of "brand").
view_items(data) ==
  [k \in 1..Len(data) |->
     [index |-> k - 1,
      name |-> data[k].name,
      brand |-> "",
      link |-> data[k].link,
      notes |-> data[k].notes,
      image |-> data[k].image,
      purchased |-> data[k].purchased]]

(***************************************************************************)
(* State.                                                                  *)
(*   file      the data file wishlist_data.json                            *)
(*   pc        where each request slot is: "idle", "load" (dispatched,     *)
(*             load_data not yet run), "body" (load_data returned), "save" *)
(*             (save_data has opened the file), "done" (response sent)     *)
(*   req       the slot's request                                          *)
(*   data      the handler's local list                                    *)
(* and, recording what has happened (read by no handler):                  *)
(*   seen      the file as the load_data of the slot's request found it    *)
(*   stale     another request has completed a save since the load_data of *)
(*             the slot's request                                          *)
(*   resp      the response of the slot's request                          *)
(*   page      the item list rendered for the slot's request               *)
(*   prev      the slot whose request was dispatched just before the       *)
(*             slot's request (0: none)                                    *)
(*   last      the slot of the latest request dispatched (0: none)         *)
(*   nreq      requests dispatched so far                                  *)
(*   hist      the objects the POSTs have appended so far, in the order of *)
(*             their saves, after those the file held at the start         *)
(***************************************************************************)
VARIABLES file, pc, req, data, seen, stale, resp, page, prev, last, nreq, hist

vars == <<file, pc, req, data, seen, stale, resp, page, prev, last, nreq, hist>>

\* A list two earlier POSTs and a /reserve/1 have left in the file.
Stored ==
  <<new_item(FormBook, [sec |-> 0, usec |-> 0]),
    [new_item(FormToy, [sec |-> 0, usec |-> 7]) EXCEPT !.purchased = TRUE]>>

InitLists == {<<>>, Stored}

Init ==
  /\ \/ file \in {Absent, Garbage} /\ hist = <<>>
     \/ \E d \in InitLists : file = FileOf(d) /\ hist = json_dump(d).items
  /\ pc = [p \in Procs |-> "idle"]
  /\ req = [p \in Procs |-> NoRequest]
  /\ data = [p \in Procs |-> <<>>]
  /\ seen = [p \in Procs |-> Absent]
  /\ stale = [p \in Procs |-> FALSE]
  /\ resp = [p \in Procs |-> "none"]
  /\ page = [p \in Procs |-> <<>>]
  /\ prev = [p \in Procs |-> 0]
  /\ last = 0
  /\ nreq = 0

InFlight(p) == pc[p] \in {"load", "body", "save"}

AddsInFlight == Cardinality({p \in Procs : InFlight(p) /\ req[p].route = "POST /"})

\* A request arrives and is dispatched to its handler.
Dispatch(p, r) ==
  /\ pc[p] \in {"idle", "done"}
  /\ nreq < MaxRequests
  /\ r.route = "POST /" => Len(hist) + AddsInFlight < MaxAdds
  /\ pc' = [pc EXCEPT ![p] = "load"]
  /\ req' = [req EXCEPT ![p] = r]
  /\ data' = [data EXCEPT ![p] = <<>>]
  /\ seen' = [seen EXCEPT ![p] = Absent]
  /\ stale' = [stale EXCEPT ![p] = FALSE]
  /\ resp' = [resp EXCEPT ![p] = "none"]
  /\ page' = [page EXCEPT ![p] = <<>>]
  /\ prev' = [prev EXCEPT ![p] = last]
  /\ last' = p
  /\ nreq' = nreq + 1
  /\ UNCHANGED <<file, hist>>

\* load_data with a slip: it creates the file it does not find.
load_data_creating(p) ==
  /\ pc[p] = "load"
  /\ seen' = [seen EXCEPT ![p] = file]
  /\ IF ~file.exists
       THEN /\ data' = [data EXCEPT ![p] = <<>>]
            /\ file' = FileOf(<<>>)
            /\ pc' = [pc EXCEPT ![p] = "body"]
            /\ UNCHANGED resp
       ELSE IF file.wf
         THEN /\ data' = [data EXCEPT ![p] = json_load(file)]
              /\ pc' = [pc EXCEPT ![p] = "body"]
              /\ UNCHANGED <<resp, file>>
         ELSE /\ resp' = [resp EXCEPT ![p] = "500"]
              /\ pc' = [pc EXCEPT ![p] = "done"]
              /\ UNCHANGED <<data, file>>
  /\ UNCHANGED <<req, stale, page, prev, last, nreq, hist>>

\* load_data with a slip: a file it cannot parse counts as an empty list.
load_data_lenient(p) ==
  /\ pc[p] = "load"
  /\ seen' = [seen EXCEPT ![p] = file]
  /\ data' = [data EXCEPT ![p] = IF file.exists /\ file.wf
                                   THEN json_load(file) ELSE <<>>]
  /\ pc' = [pc EXCEPT ![p] = "body"]
  /\ UNCHANGED <<file, req, stale, resp, page, prev, last, nreq, hist>>

\* data = load_data()
load_data(p) ==
  /\ pc[p] = "load"
  /\ seen' = [seen EXCEPT ![p] = file]
  /\ IF ~file.exists
       THEN /\ data' = [data EXCEPT ![p] = <<>>]
            /\ pc' = [pc EXCEPT ![p] = "body"]
            /\ UNCHANGED resp
       ELSE IF file.wf
         THEN /\ data' = [data EXCEPT ![p] = json_load(file)]
              /\ pc' = [pc EXCEPT ![p] = "body"]
              /\ UNCHANGED resp
         ELSE /\ resp' = [resp EXCEPT ![p] = "500"]
              /\ pc' = [pc EXCEPT ![p] = "done"]
              /\ UNCHANGED data
  /\ UNCHANGED <<file, req, stale, page, prev, last, nreq, hist>>

Respond(p, r) ==
  /\ resp' = [resp EXCEPT ![p] = r]
  /\ pc' = [pc EXCEPT ![p] = "done"]

\* The handler has changed its list and calls save_data, which opens the
\* file for writing.
save_open(p, d) ==
  /\ data' = [data EXCEPT ![p] = d]
  /\ file' = open_w(file)
  /\ pc' = [pc EXCEPT ![p] = "save"]
  /\ UNCHANGED resp

Render(p, template) ==
  /\ page' = [page EXCEPT ![p] = view_items(data[p])]
  /\ Respond(p, template)
  /\ UNCHANGED <<file, req, data, seen, stale, prev, last, nreq, hist>>

wishlist_get(p) ==
  /\ pc[p] = "body"
  /\ req[p].route = "GET /"
  /\ Render(p, "wishlist.html")

wishlist_post(p) ==
  /\ pc[p] = "body"
  /\ req[p].route = "POST /"
  /\ IF RequiredFields \subseteq DOMAIN req[p].form
       THEN \E t \in Times :
              save_open(p, append(data[p], new_item(req[p].form, t)))
       ELSE /\ Respond(p, "400")
            /\ UNCHANGED <<file, data>>
  /\ UNCHANGED <<req, seen, stale, page, prev, last, nreq, hist>>

\* delete_item with a slip: save_data is called outside the if.
delete_item_saving(p) ==
  /\ pc[p] = "body"
  /\ req[p].route = "/delete"
  /\ save_open(p, IF in_range(req[p].index, data[p])
                    THEN pop(data[p], req[p].index)
                    ELSE data[p])
  /\ UNCHANGED <<req, seen, stale, page, prev, last, nreq, hist>>

delete_item(p) ==
  /\ pc[p] = "body"
  /\ req[p].route = "/delete"
  /\ IF in_range(req[p].index, data[p])
       THEN save_open(p, pop(data[p], req[p].index))
       ELSE /\ Respond(p, "redirect /")
            /\ UNCHANGED <<file, data>>
  /\ UNCHANGED <<req, seen, stale, page, prev, last, nreq, hist>>

public_view(p) ==
  /\ pc[p] = "body"
  /\ req[p].route = "/public"
  /\ Render(p, "public_list.html")

reserve_item(p) ==
  /\ pc[p] = "body"
  /\ req[p].route = "/reserve"
  /\ IF in_range(req[p].index, data[p])
       THEN save_open(p, set_purchased(data[p], req[p].index, TRUE))
       ELSE /\ Respond(p, "redirect /public")
            /\ UNCHANGED <<file, data>>
  /\ UNCHANGED <<req, seen, stale, page, prev, last, nreq, hist>>

unreserve_item(p) ==
  /\ pc[p] = "body"
  /\ req[p].route = "/unreserve"
  /\ IF in_range(req[p].index, data[p])
       THEN save_open(p, set_purchased(data[p], req[p].index, FALSE))
       ELSE /\ Respond(p, "redirect /public")
            /\ UNCHANGED <<file, data>>
  /\ UNCHANGED <<req, seen, stale, page, prev, last, nreq, hist>>

RedirectOf(route) ==
  IF route \in {"/reserve", "/unreserve"} THEN "redirect /public"
  ELSE "redirect /"

\* json.dump(data, f) and the close of the file, then the redirect.
save_data(p) ==
  /\ pc[p] = "save"
  /\ file' = write_close(file, json_dump(data[p]))
  /\ hist' = IF req[p].route = "POST /"
               THEN Append(hist, json_dump(data[p]).items[Len(data[p])])
               ELSE hist
  /\ stale' = [q \in Procs |->
                 IF q # p /\ pc[q] \in {"body", "save"} THEN TRUE ELSE stale[q]]
  /\ Respond(p, RedirectOf(req[p].route))
  /\ UNCHANGED <<req, data, seen, page, prev, last, nreq>>

Handle(p) ==
  \/ load_data(p)
  \/ wishlist_get(p)
  \/ wishlist_post(p)
  \/ delete_item(p)
  \/ public_view(p)
  \/ reserve_item(p)
  \/ unreserve_item(p)
  \/ save_data(p)

\* Requests served by concurrent threads.
Next ==
  \E p \in Procs :
    \/ \E r \in Requests : Dispatch(p, r)
    \/ Handle(p)

Spec == Init /\ [][Next]_vars

\* Requests served one at a time, the slots taking turns, so that the slot
\* not in use still holds the request served just before.
Quiet == \A q \in Procs : ~InFlight(q)

SeqNext ==
  \E p \in Procs :
    \/ \E r \in Requests : Quiet /\ p # last /\ Dispatch(p, r)
    \/ Handle(p)

SeqSpec == Init /\ [][SeqNext]_vars

(***************************************************************************)
(* What the claims speak of.  A request "run to completion" is one that    *)
(* has sent its redirect or rendered its page; Latest(p) says that slot p  *)
(* holds the latest request dispatched, so that under SeqSpec the file is  *)
(* as that request left it.                                                *)
(***************************************************************************)
Latest(p) == last = p /\ pc[p] = "done"

\* The array the request's load_data found in the file (empty when absent).
Found(p) == seen[p].items

FoundList(p) == ~seen[p].exists \/ seen[p].wf

IsBlank(s) == \A k \in 1..Len(s) : s[k] \in Whitespace

\* t is s without its leading and trailing whitespace.
IsTrimOf(t, s) ==
  \E a \in 1..Len(s) : \E b \in a..Len(s) :
    /\ t = SubSeq(s, a, b)
    /\ s[a] \notin Whitespace
    /\ s[b] \notin Whitespace
    /\ \A k \in 1..(a - 1) : s[k] \in Whitespace
    /\ \A k \in (b + 1)..Len(s) : s[k] \in Whitespace

ImageAsSubmitted(v, form) ==
  IF "image_url" \notin DOMAIN form \/ IsBlank(form.image_url)
    THEN v = JNull
    ELSE v.j = "string" /\ IsTrimOf(v.v, form.image_url)

\* C1: under SeqSpec, a POST to / that has run to its redirect leaves the
\* file holding the array it found with exactly one element appended: the
\* length is one more, the elements found are unchanged and in order, and
\* the last element has the submitted name, link and notes, purchased
\* false, and image the trimmed image_url, or null when image_url is
\* missing or blank.
C1_AddAppendsOne ==
  \A p \in Procs :
    (Latest(p) /\ req[p].route = "POST /" /\ resp[p] = "redirect /") =>
      LET S == Found(p)
          n == Len(S)
          f == req[p].form
      IN  /\ file.exists /\ file.wf
          /\ Len(file.items) = n + 1
          /\ \A k \in 1..n : file.items[k] = S[k]
          /\ file.items[n + 1].name = JString(f.name)
          /\ file.items[n + 1].link = JString(f.link)
          /\ file.items[n + 1].notes = JString(f.notes)
          /\ file.items[n + 1].purchased = JFalse
          /\ ImageAsSubmitted(file.items[n + 1].image, f)

\* A POST of a form with a padded image_url has appended to a non-empty
\* array.
C1_Witness ==
  \E p \in Procs :
    /\ Latest(p) /\ req[p].route = "POST /" /\ resp[p] = "redirect /"
    /\ req[p].form = FormToy
    /\ Len(Found(p)) = 2
    /\ file.wf /\ Len(file.items) = 3
    /\ file.items[3].image = JString(<<"a", " ", "b">>)

InRangeOfFound(p) == FoundList(p) /\ req[p].index < Len(Found(p))

\* C2: under SeqSpec, /delete/<i> with i in range, run to completion,
\* leaves the file holding the array it found without the element at i:
\* the length is one less, the elements below i are unchanged, and the
\* element formerly at j > i is at j - 1.
C2_DeleteRemovesOne ==
  \A p \in Procs :
    (Latest(p) /\ req[p].route = "/delete" /\ InRangeOfFound(p)) =>
      LET S == Found(p)
          i == req[p].index
      IN  /\ resp[p] = "redirect /"
          /\ file.exists /\ file.wf
          /\ Len(file.items) = Len(S) - 1
          /\ \A j \in 0..(i - 1) : file.items[j + 1] = S[j + 1]
          /\ \A j \in (i + 1)..(Len(S) - 1) : file.items[j] = S[j + 1]

\* /delete/1 has removed the middle element of three.
C2_Witness ==
  \E p \in Procs :
    /\ Latest(p) /\ req[p].route = "/delete" /\ req[p].index = 1
    /\ Len(Found(p)) = 3
    /\ file.wf /\ Len(file.items) = 2
    /\ file.items[2] = Found(p)[3]

ExpectedRedirect(route) ==
  CASE route = "/delete" -> "redirect /"
    [] route = "/reserve" -> "redirect /public"
    [] route = "/unreserve" -> "redirect /public"

\* C3: under SeqSpec, /delete/<i>, /reserve/<i> and /unreserve/<i> with
\* i >= len(S) are no-ops on the store: the request never opens the file
\* for writing, the file is as the request found it (an absent file is
\* still absent), and the request completes with its redirect.
C3_OutOfRangeNoOp ==
  /\ [](\A p \in Procs :
          (/\ Latest(p) /\ req[p].route \in IndexRoutes
           /\ FoundList(p) /\ req[p].index >= Len(Found(p))) =>
             /\ file = seen[p]
             /\ resp[p] = ExpectedRedirect(req[p].route))
  /\ [][\A p \in Procs :
          (/\ pc[p] = "body" /\ req[p].route \in IndexRoutes
           /\ req[p].index >= Len(Found(p))) =>
             (file' = file /\ pc'[p] \in {"body", "done"})]_vars

\* Each of the three routes has been a no-op: /reserve/2 on an absent
\* file before, and /delete/2 on a two-element array now.
C3_Witness ==
  \E p \in Procs : \E q \in Procs :
    /\ Latest(p) /\ req[p].route = "/delete" /\ req[p].index = 2
    /\ Len(Found(p)) = 2 /\ file = seen[p]
    /\ prev[p] = q /\ q # p
    /\ req[q].route \in {"/reserve", "/unreserve"}
    /\ req[q].index = 2 /\ resp[q] = "redirect /public"

\* q's request ran right after p's, with no request in between.
Follows(q, p) == q # p /\ Latest(q) /\ prev[q] = p /\ pc[p] = "done"

\* C4: under SeqSpec, with i in range and no request in between:
\* /reserve/<i> then /unreserve/<i> leaves item i with purchased false;
\* /reserve/<i> twice leaves the store as the first left it, with item i
\* purchased; /unreserve/<i> twice leaves the store as the first left it.
C4_ReserveUnreserve ==
  \A p \in Procs : \A q \in Procs :
    (/\ Follows(q, p)
     /\ req[p].route \in {"/reserve", "/unreserve"}
     /\ req[q].route \in {"/reserve", "/unreserve"}
     /\ req[p].index = req[q].index
     /\ InRangeOfFound(p)) =>
       LET i == req[p].index
       IN  /\ file.exists /\ file.wf
           /\ Len(file.items) = Len(Found(p))
           /\ (req[p].route = "/reserve" /\ req[q].route = "/unreserve")
                => file.items[i + 1].purchased = JFalse
           /\ (req[p].route = "/reserve" /\ req[q].route = "/reserve")
                => (file = seen[q] /\ file.items[i + 1].purchased = JTrue)
           /\ (req[p].route = "/unreserve" /\ req[q].route = "/unreserve")
                => (file = seen[q] /\ file.items[i + 1].purchased = JFalse)

\* /reserve/0 twice on an item that was not purchased.
C4_Witness ==
  \E p \in Procs : \E q \in Procs :
    /\ Follows(q, p)
    /\ req[p].route = "/reserve" /\ req[q].route = "/reserve"
    /\ req[p].index = 0 /\ req[q].index = 0
    /\ seen[p].wf /\ Len(Found(p)) = 2
    /\ Found(p)[1].purchased = JFalse
    /\ file.wf /\ file.items[1].purchased = JTrue

\* C5: under Spec, when two mutating requests have both run their load
\* before either ran its save, the file after the later save holds
\* exactly what that save wrote from its own snapshot.
C5_LaterSaveWins ==
  [][\A p \in Procs :
       (pc[p] = "save" /\ pc'[p] = "done" /\ stale[p]) =>
         (/\ file'.exists /\ file'.wf
          /\ file'.items = json_dump(data[p]).items)]_vars

\* The update lost in the claim's example: two POSTs that loaded the same
\* array have both completed and the file holds one of the two new items.
C5_LostUpdate ==
  \E p \in Procs : \E q \in Procs :
    /\ p # q /\ pc[p] = "done" /\ pc[q] = "done"
    /\ req[p].route = "POST /" /\ req[q].route = "POST /"
    /\ resp[p] = "redirect /" /\ resp[q] = "redirect /"
    /\ seen[p] = seen[q] /\ stale[p]
    /\ data[p] # data[q]
    /\ file = FileOf(data[p])
    /\ Len(file.items) = Len(Found(p)) + 1

Ident(o) == [o EXCEPT !.purchased = JFalse]

Idents(os) == [k \in 1..Len(os) |-> Ident(os[k])]

RECURSIVE IsSubseq(_, _)
IsSubseq(a, h) ==
  IF a = <<>> THEN TRUE
  ELSE IF h = <<>> THEN FALSE
  ELSE IF Head(a) = Head(h) THEN IsSubseq(Tail(a), Tail(h))
  ELSE IsSubseq(a, Tail(h))

\* C6: under SeqSpec, the stored array is in insertion order: up to the
\* purchased flags it is a subsequence of the objects appended so far, so
\* of two items present the one added earlier is at the lower index and
\* none is duplicated or merged.
C6_InsertionOrder ==
  (file.exists /\ file.wf) => IsSubseq(Idents(file.items), Idents(hist))

\* From an empty store: Toy added, then Book, then /reserve/0.
C6_Witness ==
  /\ Quiet /\ nreq = 3 /\ Len(hist) = 2
  /\ hist[1].name = JString("Toy") /\ hist[2].name = JString("Book")
  /\ file.wf /\ Len(file.items) = 2
  /\ file.items[1].name = JString("Toy") /\ file.items[1].purchased = JTrue
  /\ file.items[2].name = JString("Book")

Views == {"GET /", "/public"}

TemplateOf(route) ==
  IF route = "GET /" THEN "wishlist.html" ELSE "public_list.html"

IsBook(o, flag) ==
  /\ o.name = JString("Book") /\ o.link = JString("http://x")
  /\ o.notes = JString("") /\ o.image = JNull /\ o.purchased = flag

\* C7: under SeqSpec, an absent file behaves like one holding []: load
\* returns the empty list without error and without creating the file,
\* both views list no items, the index routes are no-ops, and the first
\* POST creates the file holding a one-element array; the POST of the Book
\* form leaves [Book purchased=false], /reserve/0 on that leaves
\* [Book purchased=true], and /delete/0 on that leaves [].
C7_AbsentIsEmpty ==
  \A p \in Procs :
    /\ (pc[p] = "body" /\ ~seen[p].exists) =>
         (data[p] = <<>> /\ ~file.exists)
    /\ (pc[p] = "done" /\ seen[p] \in {Absent, FileOf(<<>>)}) =>
         /\ resp[p] # "500"
         /\ (Latest(p) /\ req[p].route \in Views) =>
              (/\ page[p] = <<>> /\ resp[p] = TemplateOf(req[p].route)
               /\ file = seen[p])
         /\ (Latest(p) /\ req[p].route \in IndexRoutes) => file = seen[p]
         /\ (Latest(p) /\ resp[p] = "redirect /" /\ req[p].route = "POST /") =>
              (file.exists /\ file.wf /\ Len(file.items) = 1)
         /\ (Latest(p) /\ req[p].route = "POST /" /\ req[p].form = FormBook) =>
              (file.exists /\ file.wf /\ Len(file.items) = 1
               /\ IsBook(file.items[1], JFalse))
    /\ (/\ Latest(p) /\ req[p].index = 0 /\ seen[p].exists /\ seen[p].wf
        /\ Len(Found(p)) = 1) =>
         /\ (req[p].route = "/reserve" /\ IsBook(Found(p)[1], JFalse)) =>
              (file.wf /\ Len(file.items) = 1 /\ IsBook(file.items[1], JTrue))
         /\ (req[p].route = "/delete" /\ IsBook(Found(p)[1], JTrue)) =>
              file = [exists |-> TRUE, wf |-> TRUE, items |-> <<>>, len |-> 2]

\* The Book form was posted to an absent file and /reserve/0 followed.
C7_Witness ==
  \E p \in Procs : \E q \in Procs :
    /\ Follows(q, p)
    /\ req[p].route = "POST /" /\ req[p].form = FormBook
    /\ ~seen[p].exists /\ resp[p] = "redirect /"
    /\ req[q].route = "/reserve" /\ req[q].index = 0
    /\ Len(Found(q)) = 1 /\ IsBook(Found(q)[1], JFalse)
    /\ file.wf /\ Len(file.items) = 1 /\ IsBook(file.items[1], JTrue)

FlagOf(route) == IF route = "/reserve" THEN JTrue ELSE JFalse

\* C8: under SeqSpec, /reserve/<i> and /unreserve/<i> with i in range
\* change nothing but the purchased flag of the element at i: the array
\* keeps its length and order, every other element is unchanged, and the
\* name, link, notes, image and created_at of element i are unchanged.
C8_OnlyTheFlag ==
  \A p \in Procs :
    (/\ Latest(p) /\ req[p].route \in {"/reserve", "/unreserve"}
     /\ InRangeOfFound(p)) =>
       LET S == Found(p)
           i == req[p].index
       IN  /\ file.exists /\ file.wf
           /\ Len(file.items) = Len(S)
           /\ \A k \in 1..Len(S) : k # i + 1 => file.items[k] = S[k]
           /\ file.items[i + 1].name = S[i + 1].name
           /\ file.items[i + 1].link = S[i + 1].link
           /\ file.items[i + 1].notes = S[i + 1].notes
           /\ file.items[i + 1].image = S[i + 1].image
           /\ file.items[i + 1].created_at = S[i + 1].created_at
           /\ file.items[i + 1].purchased = FlagOf(req[p].route)
           /\ DOMAIN file.items[i + 1] = DOMAIN S[i + 1]

\* /unreserve/1 has cleared the flag of the second of three items, the
\* first of which is not purchased.
C8_Witness ==
  \E p \in Procs :
    /\ Latest(p) /\ req[p].route = "/unreserve" /\ req[p].index = 1
    /\ seen[p].wf /\ Len(Found(p)) = 3
    /\ Found(p)[2].purchased = JTrue /\ Found(p)[1].purchased = JFalse
    /\ file.wf /\ file.items[2].purchased = JFalse
    /\ file.items[2].image # JNull

\* C9: under SeqSpec, when the file exists and holds malformed JSON, every
\* request that loads it ends in an error, never saves, and leaves the
\* file as it was; while no request that loaded a well-formed file is
\* still running, a malformed file stays as it is.
C9_MalformedStays ==
  /\ [](\A p \in Procs :
          Malformed(seen[p]) =>
            /\ pc[p] = "done" /\ resp[p] = "500"
            /\ data[p] = <<>> /\ page[p] = <<>>
            /\ Latest(p) => file = seen[p])
  /\ [][(Malformed(file) /\ \A q \in Procs : pc[q] \notin {"body", "save"})
          => file' = file]_vars

\* Three requests on a malformed file, the last two a POST after a /delete,
\* have all ended in an error.
C9_Witness ==
  \E p \in Procs : \E q \in Procs :
    /\ Follows(q, p) /\ nreq = 3
    /\ req[q].route = "POST /" /\ resp[q] = "500"
    /\ req[p].route = "/delete" /\ resp[p] = "500"
    /\ Malformed(seen[p]) /\ Malformed(seen[q])
    /\ file = Garbage

RECURSIVE Without(_, _)
\* The sequence s without its element at 0-based index i.
Without(s, i) ==
  IF i = 0 THEN Tail(s) ELSE <<Head(s)>> \o Without(Tail(s), i - 1)

\* C10: under SeqSpec, an index is resolved against the array the request
\* loads.  S lists X at index j; /delete/<i> with i < j completes; then
\* /reserve/<j>, /unreserve/<j> or /delete/<j> runs.  X is left untouched
\* at index j - 1, and the request has acted on the item that followed X,
\* or on nothing when j is out of range by then.
C10_IndexIsPositional ==
  \A p \in Procs : \A q \in Procs :
    (/\ Follows(q, p)
     /\ req[p].route = "/delete" /\ req[q].route \in IndexRoutes
     /\ seen[p].exists /\ seen[p].wf
     /\ req[p].index < req[q].index
     /\ req[q].index < Len(Found(p))) =>
       LET S == Found(p)
           i == req[p].index
           j == req[q].index
           X == S[j + 1]
           D == Without(S, i)
           listing == view_items(json_load(seen[p]))
       IN  /\ listing[j + 1].index = j
           /\ listing[j + 1].name = X.name.v
           /\ file.exists /\ file.wf
           /\ seen[q].items = D
           /\ file.items[j] = X
           /\ IF j < Len(D)
                THEN CASE req[q].route = "/delete" ->
                            file.items = Without(D, j)
                       [] OTHER ->
                            /\ Len(file.items) = Len(D)
                            /\ \A k \in 1..Len(D) :
                                 k # j + 1 => file.items[k] = D[k]
                            /\ Ident(file.items[j + 1]) = Ident(S[j + 2])
                            /\ file.items[j + 1].purchased
                                 = FlagOf(req[q].route)
                ELSE /\ file = seen[q]
                     /\ resp[q] = ExpectedRedirect(req[q].route)

\* Of three items, /delete/0 and then /reserve/1: the second item is now
\* first and untouched, the third item has been reserved.
C10_Witness ==
  \E p \in Procs : \E q \in Procs :
    /\ Follows(q, p)
    /\ req[p].route = "/delete" /\ req[p].index = 0
    /\ req[q].route = "/reserve" /\ req[q].index = 1
    /\ seen[p].wf /\ Len(Found(p)) = 3
    /\ Found(p)[3].purchased = JFalse
    /\ file.wf /\ file.items[1] = Found(p)[2]
    /\ file.items[2].purchased = JTrue

=============================================================================
